---- MODULE Spec2Model ----
(***************************************************************************)
(* Voice proxy session of VoiceProxyHandler (src/websocket_handler.py):    *)
(* handshake, upstream connect and configuration, duplex relay with two    *)
(* forwarding tasks, cancellation of the sibling task and cleanup.         *)
(*                                                                         *)
(* Blocking client socket calls run in executor threads                    *)
(* (run_in_executor).  A running thread is not interrupted when the task   *)
(* that awaits it is cancelled, so every executor call is modelled as its  *)
(* own step that can complete after the awaiting task is gone.             *)
(* Both peers are environment processes: the client and the upstream send  *)
(* frames and may close at any time.                                       *)
(*                                                                         *)
(* The other components have their own variables and specifications:       *)
(* TokenManager (TokenSpec), AgentManager (ManagerSpec), two concurrent    *)
(* sessions with a changing registry (PoolSpec), the two pure functions    *)
(* of src/analyzers.py (EvaluationSpec, AudioSpec) and the analyze route   *)
(* of src/app.py (RouteSpec).  In each specification the variables of the  *)
(* other components stay at rest.                                          *)
(***************************************************************************)
EXTENDS Integers, Sequences, FiniteSets, TLC

VARIABLES
    cfg,            \* process configuration (config.py), read-only
    pc,             \* position of handle_connection
    first_message,  \* first_message of _get_agent_id_from_client, by content
    result,         \* "running" | "returned" | "raised": how handle_connection ended
    agent_id,       \* current_agent_id of handle_connection
    agent_config,   \* agent_config of _connect_to_azure (registry lookup result)
    azure_url,      \* query parameters of the URL built by _build_azure_url
    azure_ws,       \* local azure_ws of handle_connection: "None" | "ws"
    config_message, \* session object of the payload sent by _send_initial_config
    clientOpen,     \* the client peer has not closed its socket
    c2p,            \* frames sent by the client, not yet read by the proxy
    clientRecv,     \* frames written to the client socket, in order
    nextClientId,   \* number of frames the client has sent
    upstream,       \* peer side of the upstream socket: "none" | "open" | "peer_closed"
    u2p,            \* frames sent by the upstream, not yet read by the proxy
    upRecv,         \* frames written to the upstream socket, in order
    nextUpId,       \* number of frames the upstream has sent
    connectCalls,   \* invocations of websockets.connect
    openedCount,    \* upstream sockets successfully opened
    closeCalls,     \* invocations of azure_ws.close()
    c2aPc,          \* task _forward_client_to_azure
    c2aExec,        \* executor thread running client_ws.receive for that task
    a2cPc,          \* task _forward_azure_to_client
    a2cExec,        \* executor thread running client_ws.send for that task
    cancelled,      \* tasks on which task.cancel() was called
    c2aReadLog,     \* history: frames read from the client in the relay phase
    a2cReadLog,     \* history: frames read from the upstream in the relay phase
    readOpenLog,    \* history: frames read from the client while both peers were open
    clientSendLog,  \* history: frames client_ws.send was called with, in order
    lateOps,        \* history: socket operations performed after handle_connection ended
    \* TokenManager (src/managers.py)
    token,          \* self.token: NoToken or the token, named by the call that fetched it
    expires_at,     \* self.expires_at: a local time in minutes, once a token is cached
    credential,     \* self.credential: None or the credential object
    clock,          \* the time in minutes since the epoch
    credentialCalls, \* invocations of credential.get_token
    credentialsMade, \* invocations of DefaultAzureCredential()
    tokenCall,      \* history: the last call of get_token
    \* ConversationAnalyzer and PronunciationAssessor (src/analyzers.py)
    evaluation_json, \* the evaluation as received from the model
    evaluation_result, \* <<>>, or the value _process_evaluation_result returned
    audio_data,     \* the chunks given to _prepare_audio_data
    audio_result,   \* <<>>, or the bytes _prepare_audio_data returned
    \* the analyze route (src/app.py)
    request_data,   \* request.json: scenario_id, transcript and audio_data, by content
    route_pc,       \* position of analyze_conversation: "request" | "gather" | "done"
    results,        \* what each of the two coroutines given to asyncio.gather has done
    response,       \* NoResponse, or the response of the route
    \* AgentManager (src/managers.py)
    registry,       \* self.agents: agent id -> agent configuration
    use_azure_ai_agents, \* self.use_azure_ai_agents
    project_client, \* self.project_client: None or the client
    uuidCount,      \* agent ids generated so far
    managerCall,    \* history: the last call of create_agent or delete_agent
    \* concurrent sessions of one VoiceProxyHandler, one per client connection
    sess,           \* per session: position and local variables of handle_connection
    upstreams,      \* the upstream sockets, named by the session that opened them
    relays,         \* per session: its two forwarding tasks
    clientLog,      \* per session: frames written to its client socket
    resolved        \* history, per session: the registry entry found by the lookup

proxyVars == <<cfg, pc, first_message, result, agent_id, agent_config, azure_url, azure_ws,
          config_message, clientOpen, c2p, clientRecv, nextClientId,
          upstream, u2p, upRecv, nextUpId, connectCalls, openedCount,
          closeCalls, c2aPc, c2aExec, a2cPc, a2cExec, cancelled,
          c2aReadLog, a2cReadLog, readOpenLog, clientSendLog, lateOps>>

tokenVars == <<token, expires_at, credential, clock, credentialCalls,
               credentialsMade, tokenCall>>

\* the variables of the other components, which a proxy session leaves alone
routeVars == <<request_data, route_pc, results, response>>

analyzerVars == <<evaluation_json, evaluation_result, audio_data, audio_result,
                  routeVars>>

managerVars == <<registry, use_azure_ai_agents, project_client, uuidCount,
                 managerCall>>

poolVars == <<sess, upstreams, relays, clientLog, resolved>>

serviceVars == <<tokenVars, analyzerVars, managerVars, poolVars>>

vars == <<proxyVars, serviceVars>>

sessionVars == <<pc, result, agent_id, agent_config, azure_url, azure_ws,
                 config_message>>
clientVars == <<clientOpen, c2p, clientRecv, nextClientId>>
upstreamVars == <<upstream, u2p, upRecv, nextUpId, connectCalls, openedCount,
                  closeCalls>>
taskVars == <<c2aPc, c2aExec, a2cPc, a2cExec, cancelled>>
historyVars == <<c2aReadLog, a2cReadLog, readOpenLog, clientSendLog,
                 lateOps>>

----------------------------------------------------------------------------
(* Bounds *)

\* application frames the client sends after its first frame
MaxClientMsgs == 2
\* frames the upstream sends
MaxUpMsgs == 2
\* minutes the clock of the token manager advances
MaxTime == 4
\* calls of the credential provider
MaxFetches == 3
\* highest score the model gives to a criterion or reports as a total
MaxScore == 1
\* audio chunks of a recording
MaxChunks == 2
\* agents created by one AgentManager
MaxAgents == 2
\* frames relayed in each direction of a concurrent session
MaxPoolFrames == 1
\* agents created while the concurrent sessions run
MaxPoolAgents == 1

----------------------------------------------------------------------------
(* Values *)

None == "None"

\* agents.get(agent_id) of a registry holding one local and one remote agent
LocalAgent == [is_azure_agent |-> FALSE, model |-> "gpt-4o-mini",
               instructions |-> "scenario+base", temperature |-> "0.7",
               max_tokens |-> "2000"]
AzureAgent == [is_azure_agent |-> TRUE, model |-> "gpt-4o",
               instructions |-> "scenario+base", temperature |-> "0.7",
               max_tokens |-> "2000"]
NoAgent == [is_azure_agent |-> FALSE, model |-> None, instructions |-> None,
            temperature |-> None, max_tokens |-> None]

agents == [id \in {"local-agent-1", "asst_1"} |->
             IF id = "local-agent-1" THEN LocalAgent ELSE AzureAgent]

get_agent(id) == IF id \in DOMAIN agents THEN agents[id] ELSE NoAgent

\* Config._load_config: the values the proxy reads
Configs == [azure_openai_api_key : {"", "key"},
            agent_id : {"", "cfg-agent"},
            model_deployment_name : {"gpt-4o"},
            azure_ai_project_name : {"project"}]

\* first frames a client may send, by content
FirstMsgs == {"empty", "nonjson", "json_array", "json_other_type",
              "su_noagent", "su_local", "su_azure", "su_unknown",
              "su_empty_id", "su_unhashable"}

Frame(src, id, body) == [src |-> src, id |-> id, body |-> body, text |-> ""]

\* application frames alternate between text and binary
AppBody(n) == IF n % 2 = 1 THEN "text" ELSE "binary"

\* a frame without content: an empty text message or an empty binary message
IsEmpty(f) == f.body \in {"empty_text", "empty_bytes"}

\* the n-th application frame of the client: binary, empty text, text and
\* empty binary frames in turn (the relay never looks into a frame)
ClientBody(n) ==
    CASE n % 4 = 1 -> "binary"
      [] n % 4 = 2 -> "empty_text"
      [] n % 4 = 3 -> "text"
      [] OTHER -> "empty_bytes"

ProxyConnected == Frame("proxy", 0, "proxy.connected")
ErrorFrame(msg) == [Frame("proxy", 0, "error") EXCEPT !.text = msg]
SessionUpdate == Frame("proxy", 0, "session.update")

Idle == [st |-> "idle", val |-> Frame("none", 0, "none")]
Exec(st, f) == [st |-> st, val |-> f]

----------------------------------------------------------------------------
(* Pure parts of the handler *)

\* variant: the type of the message is not tested
get_agent_id_any_type(m) ==
    CASE m = "su_local" -> "local-agent-1"
      [] m = "su_azure" -> "asst_1"
      [] m = "su_unknown" -> "unknown-id"
      [] m = "su_empty_id" -> ""
      [] m = "su_unhashable" -> "unhashable-id"
      [] m = "json_other_type" -> "local-agent-1"
      [] OTHER -> None

\* json.loads + msg.get("type") + msg.get("session", {}).get("agent_id")
\* the agent_id of a session.update is returned as it is: a registered id,
\* an unregistered one, the empty string, or a JSON array or object
\* ("unhashable-id"); every other message, and a failed read ("absent"),
\* gives None
get_agent_id_from_client(m) ==
    CASE m = "su_local" -> "local-agent-1"
      [] m = "su_azure" -> "asst_1"
      [] m = "su_unknown" -> "unknown-id"
      [] m = "su_empty_id" -> ""
      [] m = "su_unhashable" -> "unhashable-id"
      [] OTHER -> None

\* "if agent_id": None and the empty string are not looked up
Truthy(id) == id \notin {None, ""}

\* self.agents.get(agent_id) raises TypeError for a key that is not hashable
lookup_raises(id) == Truthy(id) /\ id = "unhashable-id"

\* agent_config = self.agent_manager.get_agent(agent_id) if agent_id else None
lookup_agent(id) == IF Truthy(id) THEN get_agent(id) ELSE NoAgent

Param(name, value) == [param |-> name, value |-> value]

\* query parameters of base_url
base_url(c) == <<Param("api-version", "2025-05-01-preview"),
                 Param("x-ms-client-request-id", "uuid4"),
                 Param("agent-project-name", c.azure_ai_project_name)>>

\* variant: the configured default agent id is tested first
build_azure_url_default_first(id, ac, c) ==
    IF c.agent_id # ""
    THEN base_url(c) \o <<Param("agent-id", c.agent_id)>>
    ELSE IF ac # NoAgent
         THEN IF ac.is_azure_agent
              THEN base_url(c) \o <<Param("agent-id", id)>>
              ELSE base_url(c) \o <<Param("model", ac.model)>>
         ELSE base_url(c) \o <<Param("model", c.model_deployment_name)>>

\* the URL as the sequence of its query parameters
build_azure_url(id, ac, c) ==
    IF ac # NoAgent
    THEN IF ac.is_azure_agent
         THEN base_url(c) \o <<Param("agent-id", id)>>
         ELSE base_url(c) \o <<Param("model", ac.model)>>
    ELSE IF c.agent_id # ""
         THEN base_url(c) \o <<Param("agent-id", c.agent_id)>>
         ELSE base_url(c) \o <<Param("model", c.model_deployment_name)>>

NoUrl == <<>>

DefaultSession == [modalities |-> "text,audio",
                   turn_detection |-> "azure_semantic_vad",
                   input_audio_noise_reduction |-> "azure_deep_noise_suppression",
                   input_audio_echo_cancellation |-> "server_echo_cancellation",
                   avatar |-> "lisa/casual-sitting",
                   model |-> None, instructions |-> None,
                   temperature |-> None, max_response_output_tokens |-> None]

\* variant: the token limit of the profile is not copied
build_config_message_no_token_limit(ac) ==
    IF ac # NoAgent /\ ~ac.is_azure_agent
    THEN [DefaultSession EXCEPT !.model = ac.model,
                                !.instructions = ac.instructions,
                                !.temperature = ac.temperature]
    ELSE DefaultSession

\* variant: the overrides are applied to every profile, remote-hosted or not
build_config_message_any_profile(ac) ==
    IF ac # NoAgent
    THEN [DefaultSession EXCEPT !.model = ac.model,
                                !.instructions = ac.instructions,
                                !.temperature = ac.temperature,
                                !.max_response_output_tokens = ac.max_tokens]
    ELSE DefaultSession

build_config_message(ac) ==
    IF ac # NoAgent /\ ~ac.is_azure_agent
    THEN [DefaultSession EXCEPT !.model = ac.model,
                                !.instructions = ac.instructions,
                                !.temperature = ac.temperature,
                                !.max_response_output_tokens = ac.max_tokens]
    ELSE DefaultSession

NoSession == [DefaultSession EXCEPT !.modalities = None]

----------------------------------------------------------------------------
(* Initial state: a client has connected and handle_connection starts *)

ProxyInit ==
    /\ cfg \in Configs
    /\ pc = "handshake"
    /\ first_message = None
    /\ result = "running"
    /\ agent_id = None
    /\ agent_config = NoAgent
    /\ azure_url = NoUrl
    /\ azure_ws = None
    /\ config_message = NoSession
    /\ clientOpen = TRUE
    /\ c2p = <<>>
    /\ clientRecv = <<>>
    /\ nextClientId = 0
    /\ upstream = "none"
    /\ u2p = <<>>
    /\ upRecv = <<>>
    /\ nextUpId = 0
    /\ connectCalls = 0
    /\ openedCount = 0
    /\ closeCalls = 0
    /\ c2aPc = "not_created"
    /\ c2aExec = Idle
    /\ a2cPc = "not_created"
    /\ a2cExec = Idle
    /\ cancelled = {}
    /\ c2aReadLog = <<>>
    /\ a2cReadLog = <<>>
    /\ readOpenLog = <<>>
    /\ clientSendLog = <<>>
    /\ lateOps = <<>>

\* a proxy session that has not started, with one configuration
ProxyIdle ==
    /\ ProxyInit
    /\ cfg.azure_openai_api_key = "key"
    /\ cfg.agent_id = ""

----------------------------------------------------------------------------
(* ConversationAnalyzer._process_evaluation_result *)

Scores == 0..MaxScore

\* the evaluations the model can return: every score and both totals are
\* free, the remaining fields are carried as they are
Evaluations ==
    [speaking_tone_style :
         [professional_tone : Scores, active_listening : Scores,
          engagement_quality : Scores, total : Scores],
     conversation_content :
         [needs_assessment : Scores, value_proposition : Scores,
          objection_handling : Scores, total : Scores],
     overall_score : Scores,
     strengths : {<<"Good engagement">>},
     improvements : {<<"Better needs assessment">>},
     specific_feedback : {"Overall good performance"}]

NoEvaluation == CHOOSE e \in Evaluations : TRUE

\* variant: the overall score is recomputed from the two totals
process_evaluation_result_overall(e) ==
    LET s == e.speaking_tone_style
        c == e.conversation_content
        st == s.professional_tone + s.active_listening + s.engagement_quality
        ct == c.needs_assessment + c.value_proposition + c.objection_handling
    IN [e EXCEPT !.speaking_tone_style.total = st,
                 !.conversation_content.total = ct,
                 !.overall_score = st + ct]

\* evaluation_json[...]["total"] = sum([...]) for both groups
process_evaluation_result(e) ==
    LET s == e.speaking_tone_style
        c == e.conversation_content
    IN [e EXCEPT !.speaking_tone_style.total =
                     s.professional_tone + s.active_listening
                         + s.engagement_quality,
                 !.conversation_content.total =
                     c.needs_assessment + c.value_proposition
                         + c.objection_handling]

----------------------------------------------------------------------------
(* PronunciationAssessor._prepare_audio_data *)

\* base64.b64decode of the data of a chunk: the bytes, or an exception
\* (incorrect padding; a chunk without data: KeyError; data that is no
\* string: TypeError).  Characters outside the alphabet are discarded.
b64decode(data) ==
    CASE data = "QUI=" -> [ok |-> TRUE, bytes |-> <<65, 66>>]
      [] data = "Qw==" -> [ok |-> TRUE, bytes |-> <<67>>]
      [] data = "Q!w=" -> [ok |-> TRUE, bytes |-> <<67>>]
      [] data = "" -> [ok |-> TRUE, bytes |-> <<>>]
      [] OTHER -> [ok |-> FALSE, bytes |-> <<>>]

ChunkData == {"QUI=", "Qw==", "Q!w=", "", "QUI", "missing"}

\* chunk.get("type"): "none" for a chunk without type
ChunkTypes == {"user", "assistant", "none"}

Chunks == [type : ChunkTypes, data : ChunkData]

AudioInputs == UNION {[1..n -> Chunks] : n \in 0..MaxChunks}

RECURSIVE prepare_audio_data_abort(_)
\* variant: a chunk that fails to decode ends the loop
prepare_audio_data_abort(chunks) ==
    IF chunks = <<>> THEN <<>>
    ELSE LET chunk == Head(chunks)
         IN IF chunk.type = "user"
            THEN IF b64decode(chunk.data).ok
                 THEN b64decode(chunk.data).bytes
                          \o prepare_audio_data_abort(Tail(chunks))
                 ELSE <<>>
            ELSE prepare_audio_data_abort(Tail(chunks))

RECURSIVE prepare_audio_data(_)
\* for chunk in audio_data: if chunk.get("type") == "user":
\*     try: combined_audio.extend(base64.b64decode(chunk["data"]))
\*     except Exception: log
prepare_audio_data(chunks) ==
    IF chunks = <<>> THEN <<>>
    ELSE LET chunk == Head(chunks)
             decoded == IF chunk.type = "user" /\ b64decode(chunk.data).ok
                        THEN b64decode(chunk.data).bytes
                        ELSE <<>>
         IN decoded \o prepare_audio_data(Tail(chunks))

----------------------------------------------------------------------------
(* The analyzers as state machines: one call on one input *)

----------------------------------------------------------------------------
(* The analyze route: analyze_conversation of src/app.py *)

\* data.get("scenario_id"), by content: absent or null, the empty string,
\* the id of an evaluation scenario, another string, a JSON array
ScenarioIds == {"missing", "empty", "known", "unknown", "array"}

\* data.get("transcript"), by content: absent or null, the empty string, a
\* text, a JSON number other than 0
Transcripts == {"missing", "empty", "text", "number"}

\* data.get("audio_data", []): no chunk, or chunks of the user
AudioData == {"none", "user_chunks"}

Requests == [scenario_id : ScenarioIds, transcript : Transcripts,
             audio_data : AudioData]

\* `not value`
Falsy(value) == value \in {"missing", "empty"}

\* len(transcript or ''), evaluated for the log line: a number has no len()
log_raises(data) == data.transcript = "number"

\* if not scenario_id or not transcript
required_missing(data) == Falsy(data.scenario_id) \/ Falsy(data.transcript)

NotStarted == [ai_assessment |-> "not_started", pronunciation |-> "not_started"]

NoResponse == [status |-> 0, error |-> "", ai_assessment |-> "null",
               pronunciation_assessment |-> "null"]

\* jsonify({"error": ...}), status
ErrorResponse(status, error) == [NoResponse EXCEPT !.status = status,
                                                   !.error = error]

\* a result of asyncio.gather(..., return_exceptions=True) as the response
\* shows it: an exception and None both give null
as_json(res) == IF res = "result" THEN "result" ELSE "null"

\* ConversationAnalyzer.analyze_conversation: the dict lookup of a scenario
\* id that is not hashable raises; an unknown scenario gives None; the
\* evaluation gives a result, or None when the model call failed
ai_outcomes(data) ==
    CASE data.scenario_id = "array" -> {"raised"}
      [] data.scenario_id = "unknown" -> {"none"}
      [] OTHER -> {"result", "none"}

\* PronunciationAssessor.assess_pronunciation: None without audio of the
\* user or when the assessment failed (every exception is caught inside)
pronunciation_outcomes(data) ==
    IF data.audio_data = "none" THEN {"none"} ELSE {"result", "none"}

\* analyze_conversation up to the start of the two analyses
analyze_request ==
    /\ route_pc = "request"
    /\ IF log_raises(request_data)
       THEN \* the TypeError leaves the view: internal server error
            /\ response' = ErrorResponse(500, "Internal Server Error")
            /\ route_pc' = "done"
            /\ UNCHANGED results
       ELSE IF required_missing(request_data)
       THEN /\ response' = ErrorResponse(400, "scenario_id and transcript are required")
            /\ route_pc' = "done"
            /\ UNCHANGED results
       ELSE /\ results' = [ai_assessment |-> "pending", pronunciation |-> "pending"]
            /\ route_pc' = "gather"
            /\ UNCHANGED response
    /\ UNCHANGED request_data

\* the coroutine of the conversation analysis runs to its end
run_analyze_conversation ==
    /\ route_pc = "gather"
    /\ results.ai_assessment = "pending"
    /\ \E out \in ai_outcomes(request_data) :
          results' = [results EXCEPT !.ai_assessment = out]
    /\ UNCHANGED <<request_data, route_pc, response>>

\* the coroutine of the pronunciation assessment runs to its end
run_assess_pronunciation ==
    /\ route_pc = "gather"
    /\ results.pronunciation = "pending"
    /\ \E out \in pronunciation_outcomes(request_data) :
          results' = [results EXCEPT !.pronunciation = out]
    /\ UNCHANGED <<request_data, route_pc, response>>

\* gather returns: exceptions become None, and both fields are returned
analyze_respond ==
    /\ route_pc = "gather"
    /\ results.ai_assessment # "pending"
    /\ results.pronunciation # "pending"
    /\ response' = [NoResponse EXCEPT
                       !.status = 200,
                       !.ai_assessment = as_json(results.ai_assessment),
                       !.pronunciation_assessment = as_json(results.pronunciation)]
    /\ route_pc' = "done"
    /\ UNCHANGED <<request_data, results>>

outsideRoute == <<proxyVars, tokenVars, managerVars, poolVars, evaluation_json,
                  evaluation_result, audio_data, audio_result>>

AnalyzeRequest == analyze_request /\ UNCHANGED outsideRoute
RunAnalyzeConversation == run_analyze_conversation /\ UNCHANGED outsideRoute
RunAssessPronunciation == run_assess_pronunciation /\ UNCHANGED outsideRoute
AnalyzeRespond == analyze_respond /\ UNCHANGED outsideRoute

RouteNext ==
    \/ AnalyzeRequest
    \/ RunAnalyzeConversation
    \/ RunAssessPronunciation
    \/ AnalyzeRespond

\* the route has no request
RouteIdle ==
    /\ request_data = [scenario_id |-> "missing", transcript |-> "missing",
                       audio_data |-> "none"]
    /\ route_pc = "done"
    /\ results = NotStarted
    /\ response = NoResponse

AnalyzerIdle ==
    /\ evaluation_json = NoEvaluation
    /\ evaluation_result = <<>>
    /\ audio_data = <<>>
    /\ audio_result = <<>>
    /\ RouteIdle

ProcessEvaluation ==
    /\ evaluation_result = <<>>
    /\ evaluation_result' = <<process_evaluation_result(evaluation_json)>>
    /\ UNCHANGED <<proxyVars, tokenVars, managerVars, poolVars, evaluation_json, audio_data,
                   audio_result, routeVars>>

PrepareAudio ==
    /\ audio_result = <<>>
    /\ audio_result' = <<prepare_audio_data(audio_data)>>
    /\ UNCHANGED <<proxyVars, tokenVars, managerVars, poolVars, evaluation_json, evaluation_result,
                   audio_data, routeVars>>

----------------------------------------------------------------------------
(* AgentManager: the agent registry *)

Scenarios == {"scenario1", "scenario2"}

\* scenario data, by what create_agent reads from it: the messages (key
\* missing, an empty list, or a first message with content) and the model
\* (None: key missing)
ScenarioData == [messages : {"missing", "empty_list", "content"},
                 model : {None, "gpt-4o-mini"}]

\* AgentManager.BASE_INSTRUCTIONS
BASE_INSTRUCTIONS == "CRITICAL INTERACTION GUIDELINES"

\* scenario_data.get("messages", [{}])[0].get("content", ""), as the
\* sequence of its text parts; an empty list of messages has no first one
scenario_instructions(data) ==
    IF data.messages = "content" THEN <<"You are a buyer.">> ELSE <<>>

\* variant: the base instructions come first
combine_instructions_base_first(content) == <<BASE_INSTRUCTIONS>> \o content

\* combined_instructions = scenario_instructions + self.BASE_INSTRUCTIONS
combine_instructions(content) == content \o <<BASE_INSTRUCTIONS>>

\* f"local-agent-{scenario_id}-{uuid.uuid4().hex[:8]}"; the uuid is taken
\* to be unique, as its name says: the n-th generated one is n
local_agent_id(scenario_id, n) ==
    [prefix |-> "local-agent", scenario_id |-> scenario_id, uuid |-> n]

\* agent.id: the n-th id assigned by the remote agent service
remote_agent_id(n) == [prefix |-> "asst", scenario_id |-> "", uuid |-> n]

\* the ids a caller can name: every id generated so far and, with uuid 0,
\* ids that were never generated
AgentIds(n) ==
    {remote_agent_id(k) : k \in 0..n}
        \cup {local_agent_id(s, k) : s \in Scenarios, k \in 0..n}

EmptyRegistry == [id \in {} |-> NoAgent]

\* self.agents.get(agent_id)
registry_get(reg, id) == IF id \in DOMAIN reg THEN reg[id] ELSE NoAgent

\* variant: every agent of the scenario of the agent is removed
del_agent_of_scenario(reg, id) ==
    [k \in {j \in DOMAIN reg : reg[j].scenario_id # reg[id].scenario_id} |-> reg[k]]

\* del self.agents[agent_id]
del_agent(reg, id) == [k \in DOMAIN reg \ {id} |-> reg[k]]

\* self.agents[agent_id] = {...}
put_agent(reg, id, entry) ==
    [k \in DOMAIN reg \cup {id} |-> IF k = id THEN entry ELSE reg[k]]

\* agent_config.get("is_azure_agent") and self.project_client
deletes_remotely(agent) == agent.is_azure_agent /\ project_client # None

\* variant: a failed remote deletion leaves the agent in the registry
registry_after_delete_unless_failed(reg, id, failed) ==
    IF failed THEN reg ELSE del_agent(reg, id)

\* the registry when delete_agent of a registered agent is over: the inner
\* except clause swallows the failure of the remote deletion, the entry
\* is removed in both cases
registry_after_delete(reg, id, failed) == del_agent(reg, id)

NoManagerCall == [op |-> "none"]

\* AgentManager.__init__: no agent; the project client exists only when
\* Azure agents are enabled and the client could be initialised
ManagerInit ==
    /\ registry = EmptyRegistry
    /\ use_azure_ai_agents \in BOOLEAN
    /\ project_client \in IF use_azure_ai_agents THEN {None, "client"} ELSE {None}
    /\ uuidCount = 0
    /\ managerCall = NoManagerCall

\* an agent manager that is not used
ManagerIdle ==
    /\ ManagerInit
    /\ ~use_azure_ai_agents

\* variant: when the remote service refuses, a local agent is stored
registry_after_failed_create_local(reg, id, entry) == put_agent(reg, id, entry)

\* _create_azure_agent when project_client.agents.create_agent raises: the
\* except clause logs and raises again, before self.agents is assigned
registry_after_failed_create(reg, id, entry) == reg

\* AgentManager.create_agent(scenario_id, scenario_data), with
\* _create_azure_agent and _create_local_agent
create_agent(scenario_id, scenario_data) ==
    LET instructions == combine_instructions(scenario_instructions(scenario_data))
        model_name == IF scenario_data.model = None
                      THEN cfg.model_deployment_name
                      ELSE scenario_data.model
        call == [op |-> "create_agent", st |-> "returned",
                 scenario_id |-> scenario_id, scenario_data |-> scenario_data,
                 agent_id |-> None, before |-> registry, remote |-> <<>>,
                 remote_failed |-> FALSE]
        entry == [scenario_id |-> scenario_id, is_azure_agent |-> FALSE,
                  instructions |-> instructions, model |-> model_name,
                  temperature |-> "0.7", max_tokens |-> "2000"]
    IN
    /\ uuidCount < MaxAgents
    /\ \/ \* scenario_data["messages"] is an empty list: IndexError
          /\ scenario_data.messages = "empty_list"
          /\ managerCall' = [call EXCEPT !.st = "raised"]
          /\ UNCHANGED <<registry, uuidCount>>
       \/ \* the remote service refuses: the exception is logged and raised
          /\ scenario_data.messages # "empty_list"
          /\ use_azure_ai_agents /\ project_client # None
          /\ managerCall' = [call EXCEPT !.st = "raised", !.remote_failed = TRUE]
          /\ registry' = registry_after_failed_create(
                             registry, local_agent_id(scenario_id, uuidCount + 1),
                             entry)
          /\ UNCHANGED uuidCount
       \/ \* the remote service creates the agent and assigns its id
          /\ scenario_data.messages # "empty_list"
          /\ use_azure_ai_agents /\ project_client # None
          /\ LET new_id == remote_agent_id(uuidCount + 1)
             IN /\ registry' = put_agent(registry, new_id,
                                  [azure_agent_id |-> new_id] @@
                                  [entry EXCEPT !.is_azure_agent = TRUE])
                /\ managerCall' = [call EXCEPT !.agent_id = new_id]
          /\ uuidCount' = uuidCount + 1
       \/ \* local agent configuration only
          /\ scenario_data.messages # "empty_list"
          /\ ~(use_azure_ai_agents /\ project_client # None)
          /\ LET new_id == local_agent_id(scenario_id, uuidCount + 1)
             IN /\ registry' = put_agent(registry, new_id, entry)
                /\ managerCall' = [call EXCEPT !.agent_id = new_id]
          /\ uuidCount' = uuidCount + 1
    /\ UNCHANGED <<use_azure_ai_agents, project_client>>

\* AgentManager.delete_agent(agent_id): the remote deletion of an Azure
\* agent succeeds or raises
delete_agent(id) ==
    LET call == [op |-> "delete_agent", st |-> "returned",
                 scenario_id |-> None, scenario_data |-> None,
                 agent_id |-> id, before |-> registry, remote |-> <<>>,
                 remote_failed |-> FALSE]
    IN
    /\ IF id \in DOMAIN registry
       THEN IF deletes_remotely(registry[id])
            THEN \E failed \in BOOLEAN :
                   /\ registry' = registry_after_delete(registry, id, failed)
                   /\ managerCall' = [call EXCEPT !.remote = <<id>>,
                                                  !.remote_failed = failed]
            ELSE /\ registry' = registry_after_delete(registry, id, FALSE)
                 /\ managerCall' = call
       ELSE /\ managerCall' = call
            /\ UNCHANGED registry
    /\ UNCHANGED <<use_azure_ai_agents, project_client, uuidCount>>

CreateAgent ==
    /\ \E scenario_id \in Scenarios, scenario_data \in ScenarioData :
          create_agent(scenario_id, scenario_data)
    /\ UNCHANGED <<proxyVars, tokenVars, analyzerVars, poolVars>>

DeleteAgent ==
    /\ \E id \in AgentIds(uuidCount) : delete_agent(id)
    /\ UNCHANGED <<proxyVars, tokenVars, analyzerVars, poolVars>>

ManagerNext == CreateAgent \/ DeleteAgent

----------------------------------------------------------------------------
(* Concurrent sessions of one VoiceProxyHandler and the agent registry.     *)
(* Every session runs handle_connection in its own event loop; a step is    *)
(* what a session does between two awaits.                                  *)

Sessions == {"A", "B"}

\* no agent id in the first message
NoId == [prefix |-> "none", scenario_id |-> "", uuid |-> 0]

\* azure_ws = None
NoSocket == "no_socket"

PoolFrame(owner, dir, n, payload) ==
    [owner |-> owner, dir |-> dir, n |-> n, payload |-> payload]

\* handle_connection before its first step
PoolIdle ==
    /\ sess = [s \in Sessions |->
                 [pc |-> "handshake", agent_id |-> NoId, agent_config |-> NoAgent,
                  azure_url |-> NoUrl, config_message |-> NoSession,
                  azure_ws |-> NoSocket]]
    /\ upstreams = [s \in Sessions |->
                      [st |-> "none", closed_by |-> {}, recv |-> <<>>, sent |-> 0]]
    /\ relays = [s \in Sessions |->
                   [st |-> "not_created", cancelled_by |-> {}, read |-> 0]]
    /\ clientLog = [s \in Sessions |-> <<>>]
    /\ resolved = [s \in Sessions |-> NoAgent]

\* variant: the upstream socket is kept on the handler, which the
\* sessions share: every session uses the socket opened first
azure_ws_of_handler(s) ==
    LET opened == {t \in Sessions : upstreams[t].st # "none"}
    IN IF opened = {} THEN sess[s].azure_ws ELSE CHOOSE t \in opened : TRUE

\* azure_ws: a local variable of handle_connection, passed to the relay
azure_ws_of(s) == sess[s].azure_ws

\* variant: the profile is looked up again when the configuration is sent
profile_looked_up_again(s) == registry_get(registry, sess[s].agent_id)

\* agent_config: the local variable of _connect_to_azure, passed to
\* _send_initial_config
profile_for_config(s) == sess[s].agent_config

\* _get_agent_id_from_client: the client names a registered agent or none
pool_handshake(s) ==
    /\ sess[s].pc = "handshake"
    /\ \E id \in DOMAIN registry \cup {NoId} :
          sess' = [sess EXCEPT ![s].agent_id = id, ![s].pc = "connect"]
    /\ UNCHANGED <<upstreams, relays, clientLog, resolved>>

\* _connect_to_azure up to `await websockets.connect`: registry lookup
\* and URL
pool_lookup(s) ==
    /\ sess[s].pc = "connect"
    /\ LET agent == IF sess[s].agent_id # NoId
                    THEN registry_get(registry, sess[s].agent_id)
                    ELSE NoAgent
       IN /\ sess' = [sess EXCEPT
                         ![s].agent_config = agent,
                         ![s].azure_url = build_azure_url(sess[s].agent_id, agent, cfg),
                         ![s].pc = "connecting"]
          /\ resolved' = [resolved EXCEPT ![s] = agent]
    /\ UNCHANGED <<upstreams, relays, clientLog>>

\* websockets.connect returns, _send_initial_config, proxy.connected and
\* the creation of the two tasks; or websockets.connect raises and the
\* session ends with an error message
pool_connect(s) ==
    /\ sess[s].pc = "connecting"
    /\ \/ LET message == build_config_message(profile_for_config(s))
          IN /\ sess' = [sess EXCEPT ![s].azure_ws = s,
                                     ![s].config_message = message,
                                     ![s].pc = "relay"]
             /\ upstreams' = [upstreams EXCEPT
                                 ![s].st = "open",
                                 ![s].recv = <<PoolFrame(s, "config", 0, message)>>]
             /\ relays' = [relays EXCEPT ![s].st = "running"]
             /\ clientLog' = [clientLog EXCEPT
                                 ![s] = <<PoolFrame(s, "proxy", 0, NoSession)>>]
       \/ /\ sess' = [sess EXCEPT ![s].pc = "done"]
          /\ clientLog' = [clientLog EXCEPT
                              ![s] = <<PoolFrame(s, "error", 0, NoSession),
                                       PoolFrame(s, "error", 0, NoSession)>>]
          /\ UNCHANGED <<upstreams, relays>>
    /\ UNCHANGED resolved

\* _forward_client_to_azure: a frame read from the client of the session
\* is written to azure_ws
pool_forward_client(s) ==
    /\ sess[s].pc = "relay"
    /\ relays[s].st = "running"
    /\ relays[s].read < MaxPoolFrames
    /\ upstreams[azure_ws_of(s)].st = "open"
    /\ relays' = [relays EXCEPT ![s].read = @ + 1]
    /\ upstreams' = [upstreams EXCEPT ![azure_ws_of(s)].recv =
                        Append(@, PoolFrame(s, "up", relays[s].read + 1, NoSession))]
    /\ UNCHANGED <<sess, clientLog, resolved>>

\* _forward_azure_to_client: a frame read from azure_ws is written to the
\* client of the session
pool_forward_upstream(s) ==
    /\ sess[s].pc = "relay"
    /\ relays[s].st = "running"
    /\ upstreams[azure_ws_of(s)].st = "open"
    /\ upstreams[azure_ws_of(s)].sent < MaxPoolFrames
    /\ upstreams' = [upstreams EXCEPT ![azure_ws_of(s)].sent = @ + 1]
    /\ clientLog' = [clientLog EXCEPT ![s] =
                        Append(@, PoolFrame(azure_ws_of(s), "down",
                                            upstreams[azure_ws_of(s)].sent + 1,
                                            NoSession))]
    /\ UNCHANGED <<sess, relays, resolved>>

\* one forwarding task of the session ends (a peer closed, a transport
\* error): its sibling task is cancelled and the finally clause closes
\* azure_ws
pool_finish(s) ==
    /\ sess[s].pc = "relay"
    /\ relays' = [relays EXCEPT ![s].st = "cancelled",
                                ![s].cancelled_by = @ \cup {s}]
    /\ upstreams' = [upstreams EXCEPT ![azure_ws_of(s)].st = "closed",
                                      ![azure_ws_of(s)].closed_by = @ \cup {s}]
    /\ sess' = [sess EXCEPT ![s].pc = "done"]
    /\ UNCHANGED <<clientLog, resolved>>

\* the variables a session of the pool leaves alone
outsidePool == <<proxyVars, tokenVars, analyzerVars, managerVars>>

PoolHandshake == (\E s \in Sessions : pool_handshake(s)) /\ UNCHANGED outsidePool
PoolLookup == (\E s \in Sessions : pool_lookup(s)) /\ UNCHANGED outsidePool
PoolConnect == (\E s \in Sessions : pool_connect(s)) /\ UNCHANGED outsidePool
PoolForwardClient ==
    (\E s \in Sessions : pool_forward_client(s)) /\ UNCHANGED outsidePool
PoolForwardUpstream ==
    (\E s \in Sessions : pool_forward_upstream(s)) /\ UNCHANGED outsidePool
PoolFinish == (\E s \in Sessions : pool_finish(s)) /\ UNCHANGED outsidePool

\* the agent-lifecycle routes create an agent of a scenario and delete
\* registered agents while sessions run
PoolCreateAgent ==
    /\ uuidCount < MaxPoolAgents
    /\ create_agent("scenario1", [messages |-> "content", model |-> "gpt-4o-mini"])
    /\ UNCHANGED <<proxyVars, tokenVars, analyzerVars, poolVars>>

PoolDeleteAgent ==
    /\ \E id \in DOMAIN registry : delete_agent(id)
    /\ UNCHANGED <<proxyVars, tokenVars, analyzerVars, poolVars>>

PoolNext ==
    \/ PoolHandshake
    \/ PoolLookup
    \/ PoolConnect
    \/ PoolForwardClient
    \/ PoolForwardUpstream
    \/ PoolFinish
    \/ PoolCreateAgent
    \/ PoolDeleteAgent

----------------------------------------------------------------------------
(* TokenManager: the cached authentication token *)

\* timedelta(minutes=5)
RefreshMargin == 5

\* offset of the local time zone, in minutes
UtcOffset == 1

\* minutes a token of the credential provider is valid for
Lifetimes == {5, 7}

\* datetime.now(): the local time
datetime_now == clock + UtcOffset

\* datetime.fromtimestamp(expires_on): epoch time to local time
fromtimestamp(expires_on) == expires_on + UtcOffset

\* self.token = None, self.expires_at = None
NoToken == 0
NoExpiry == 0

NoCall == [st |-> "none"]

\* TokenManager.__init__
TokenIdle ==
    /\ token = NoToken
    /\ expires_at = NoExpiry
    /\ credential = None
    /\ clock = 0
    /\ credentialCalls = 0
    /\ credentialsMade = 0
    /\ tokenCall = NoCall

\* variant: the token is refreshed only once it has expired
needs_refresh_when_expired(t, e, n) == t = NoToken \/ n >= e

\* not self.token or datetime.now() >= (self.expires_at - timedelta(minutes=5))
needs_refresh(t, e, n) == t = NoToken \/ n >= e - RefreshMargin

\* variant: a credential is constructed for every fetch
constructs_credential_always(c) == TRUE

\* self.credential or DefaultAzureCredential(): the constructor runs only
\* when no credential is kept
constructs_credential(c) == c = None

\* TokenManager.get_token: the cached token, or a token fetched from the
\* credential provider, which answers with a token and its expiry or raises
get_token ==
    /\ credentialCalls < MaxFetches
    /\ LET n == datetime_now
           call == [st |-> "returned", at |-> n, had |-> token,
                    exp |-> expires_at, contacted |-> FALSE,
                    expires_on |-> NoExpiry, ret |-> token]
       IN IF needs_refresh(token, expires_at, n)
          THEN /\ credential' = "credential"
               /\ credentialsMade' = IF constructs_credential(credential)
                                     THEN credentialsMade + 1
                                     ELSE credentialsMade
               /\ credentialCalls' = credentialCalls + 1
               /\ \/ \E life \in Lifetimes :
                        /\ token' = credentialCalls + 1
                        /\ expires_at' = fromtimestamp(clock + life)
                        /\ tokenCall' = [call EXCEPT !.contacted = TRUE,
                                                     !.expires_on = clock + life,
                                                     !.ret = token']
                  \/ /\ tokenCall' = [call EXCEPT !.st = "raised",
                                                  !.contacted = TRUE,
                                                  !.ret = NoToken]
                     /\ UNCHANGED <<token, expires_at>>
          ELSE /\ tokenCall' = call
               /\ UNCHANGED <<token, expires_at, credential, credentialCalls,
                              credentialsMade>>
    /\ UNCHANGED <<proxyVars, analyzerVars, managerVars, poolVars, clock>>

\* a minute passes
Tick ==
    /\ clock < MaxTime
    /\ clock' = clock + 1
    /\ UNCHANGED <<proxyVars, analyzerVars, managerVars, poolVars, token, expires_at, credential,
                   credentialCalls, credentialsMade, tokenCall>>

TokenNext == get_token \/ Tick

TokenInit == ProxyIdle /\ TokenIdle /\ AnalyzerIdle /\ ManagerIdle /\ PoolIdle

TokenSpec == TokenInit /\ [][TokenNext]_vars

----------------------------------------------------------------------------
(* Specification of the agent manager *)

ManagerSpecInit ==
    ProxyIdle /\ TokenIdle /\ AnalyzerIdle /\ ManagerInit /\ PoolIdle

ManagerSpec == ManagerSpecInit /\ [][ManagerNext]_vars

PoolInit ==
    /\ ProxyIdle
    /\ TokenIdle
    /\ AnalyzerIdle
    /\ ManagerInit
    /\ use_azure_ai_agents => project_client # None
    /\ PoolIdle

PoolSpec == PoolInit /\ [][PoolNext]_vars

----------------------------------------------------------------------------
(* Specifications of the analyzers *)

EvaluationInit ==
    /\ ProxyIdle
    /\ TokenIdle
    /\ ManagerIdle
    /\ PoolIdle
    /\ evaluation_json \in Evaluations
    /\ evaluation_result = <<>>
    /\ audio_data = <<>>
    /\ audio_result = <<>>
    /\ RouteIdle

EvaluationSpec == EvaluationInit /\ [][ProcessEvaluation]_vars

AudioInit ==
    /\ ProxyIdle
    /\ TokenIdle
    /\ ManagerIdle
    /\ PoolIdle
    /\ evaluation_json = NoEvaluation
    /\ evaluation_result = <<>>
    /\ audio_data \in AudioInputs
    /\ audio_result = <<>>
    /\ RouteIdle

AudioSpec == AudioInit /\ [][PrepareAudio]_vars

RouteInit ==
    /\ ProxyIdle
    /\ TokenIdle
    /\ ManagerIdle
    /\ PoolIdle
    /\ evaluation_json = NoEvaluation
    /\ evaluation_result = <<>>
    /\ audio_data = <<>>
    /\ audio_result = <<>>
    /\ request_data \in Requests
    /\ route_pc = "request"
    /\ results = NotStarted
    /\ response = NoResponse

RouteSpec == RouteInit /\ [][RouteNext]_vars

----------------------------------------------------------------------------
(* Environment: the two peers *)

\* the client sends its next frame; the first one is any of FirstMsgs
ClientSend ==
    /\ clientOpen
    /\ nextClientId <= MaxClientMsgs
    /\ \E fm \in FirstMsgs :
         c2p' = Append(c2p, IF nextClientId = 0
                            THEN Frame("client", 0, fm)
                            ELSE Frame("client", nextClientId, ClientBody(nextClientId)))
    /\ nextClientId' = nextClientId + 1
    /\ UNCHANGED <<serviceVars, cfg, first_message, sessionVars, clientOpen, clientRecv, upstreamVars,
                   taskVars, historyVars>>

\* the client disconnects
ClientClose ==
    /\ clientOpen
    /\ clientOpen' = FALSE
    /\ UNCHANGED <<serviceVars, cfg, first_message, sessionVars, c2p, clientRecv, nextClientId,
                   upstreamVars, taskVars, historyVars>>

\* the upstream service sends a frame
UpstreamSend ==
    /\ upstream = "open"
    /\ closeCalls = 0
    /\ nextUpId < MaxUpMsgs
    /\ u2p' = Append(u2p, Frame("upstream", nextUpId + 1, AppBody(nextUpId + 1)))
    /\ nextUpId' = nextUpId + 1
    /\ UNCHANGED <<serviceVars, cfg, first_message, sessionVars, clientVars, upstream, upRecv,
                   connectCalls, openedCount, closeCalls, taskVars, historyVars>>

\* the upstream service closes the connection
UpstreamClose ==
    /\ upstream = "open"
    /\ closeCalls = 0
    /\ upstream' = "peer_closed"
    /\ UNCHANGED <<serviceVars, cfg, first_message, sessionVars, clientVars, u2p, upRecv, nextUpId,
                   connectCalls, openedCount, closeCalls, taskVars, historyVars>>

----------------------------------------------------------------------------
(* Socket primitives *)

\* the upstream socket carries frames: opened, not closed by either side
UpstreamUsable == upstream = "open" /\ closeCalls = 0

\* client_ws.send(f) run by _send_message: the frame is delivered when the
\* client is connected, the exception is swallowed otherwise
client_send(f) ==
    /\ clientSendLog' = Append(clientSendLog, f)
    /\ clientRecv' = IF clientOpen THEN Append(clientRecv, f) ELSE clientRecv

----------------------------------------------------------------------------
(* handle_connection *)

\* variant: the read gives up after a while although the client is connected
first_receive_times_out == c2p = <<>>

\* client_ws.receive() is called without a timeout: with nothing to read it
\* returns only by raising, once the client has disconnected
first_receive_raises == c2p = <<>> /\ ~clientOpen

\* variant: the first message is looked at and left on the socket
after_first_receive_peeked(q) == q

\* what remains to be read once client_ws.receive() has returned a message
after_first_receive(q) == Tail(q)

\* current_agent_id = await self._get_agent_id_from_client(client_ws)
handshake ==
    /\ pc = "handshake"
    /\ \/ /\ c2p # <<>>
          /\ first_message' = Head(c2p).body
          /\ c2p' = after_first_receive(c2p)
       \/ \* the read raises: the client is gone and nothing is buffered
          /\ first_receive_raises
          /\ first_message' = "absent"
          /\ c2p' = c2p
    /\ agent_id' = get_agent_id_from_client(first_message')
    /\ pc' = "connect"
    /\ UNCHANGED <<serviceVars, cfg, result, agent_config, azure_url, azure_ws,
                   config_message, clientOpen, clientRecv, nextClientId,
                   upstreamVars, taskVars, historyVars>>

\* variant: the configuration is written twice
send_initial_config_twice == <<SessionUpdate, SessionUpdate>>

\* frames _send_initial_config writes to the new upstream socket
send_initial_config == <<SessionUpdate>>

\* variant: the missing-upstream branch does not end the session
after_connect_no_return(ws) == "send_connected"

\* if not azure_ws: send the error and return; else acknowledge and relay
after_connect(ws) == IF ws = None THEN "send_error" ELSE "send_connected"

\* variant: the API key is not tested
api_key_not_tested(c) == FALSE

\* if not api_key
api_key_missing(c) == c.azure_openai_api_key = ""

\* azure_ws = await self._connect_to_azure(current_agent_id)
connect_to_azure ==
    /\ pc = "connect"
    /\ \/ \* the registry lookup raises: the except clause returns None
          /\ lookup_raises(agent_id)
          /\ azure_ws' = None
          /\ UNCHANGED <<agent_config, azure_url, config_message,
                         upstreamVars>>
       \/ \* no API key: return None before any network call
          /\ ~lookup_raises(agent_id)
          /\ agent_config' = lookup_agent(agent_id)
          /\ azure_url' = build_azure_url(agent_id, agent_config', cfg)
          /\ api_key_missing(cfg)
          /\ azure_ws' = None
          /\ UNCHANGED <<config_message, upstreamVars>>
       \/ \* websockets.connect raises: return None
          /\ ~lookup_raises(agent_id)
          /\ agent_config' = lookup_agent(agent_id)
          /\ azure_url' = build_azure_url(agent_id, agent_config', cfg)
          /\ ~api_key_missing(cfg)
          /\ connectCalls' = connectCalls + 1
          /\ azure_ws' = None
          /\ UNCHANGED <<config_message, upstream, u2p, upRecv, nextUpId,
                         openedCount, closeCalls>>
       \/ \* connected, but sending the initial configuration raises:
          \* the except clause returns None and drops the open socket
          /\ ~lookup_raises(agent_id)
          /\ agent_config' = lookup_agent(agent_id)
          /\ azure_url' = build_azure_url(agent_id, agent_config', cfg)
          /\ ~api_key_missing(cfg)
          /\ connectCalls' = connectCalls + 1
          /\ openedCount' = openedCount + 1
          /\ upstream' = "peer_closed"
          /\ azure_ws' = None
          /\ UNCHANGED <<config_message, u2p, upRecv, nextUpId, closeCalls>>
       \/ \* connected and configured
          /\ ~lookup_raises(agent_id)
          /\ agent_config' = lookup_agent(agent_id)
          /\ azure_url' = build_azure_url(agent_id, agent_config', cfg)
          /\ ~api_key_missing(cfg)
          /\ connectCalls' = connectCalls + 1
          /\ openedCount' = openedCount + 1
          /\ upstream' = "open"
          /\ config_message' = build_config_message(agent_config')
          /\ upRecv' = upRecv \o send_initial_config
          /\ azure_ws' = "ws"
          /\ UNCHANGED <<u2p, nextUpId, closeCalls>>
    /\ pc' = after_connect(azure_ws')
    /\ UNCHANGED <<serviceVars, cfg, first_message, result, agent_id, clientVars, taskVars, historyVars>>

\* statements of _send_error: each one is a _send_message of an error frame
send_error_steps == <<"send_error", "send_error_again">>

\* variant: the session goes on after the error was sent
after_send_error_no_return(p) ==
    IF p = send_error_steps[1] THEN send_error_steps[2] ELSE "send_connected"

\* position after the statement at pc inside _send_error
after_send_error(p) ==
    IF \E i \in 1..(Len(send_error_steps) - 1) : send_error_steps[i] = p
    THEN send_error_steps[(CHOOSE i \in 1..Len(send_error_steps) :
                              send_error_steps[i] = p) + 1]
    ELSE "finally"

\* if not azure_ws: await self._send_error(client_ws, "Failed to connect ...")
send_error ==
    /\ \E i \in 1..Len(send_error_steps) : send_error_steps[i] = pc
    /\ client_send(ErrorFrame("Failed to connect to Azure Voice API"))
    /\ pc' = after_send_error(pc)
    /\ UNCHANGED <<serviceVars, cfg, first_message, result, agent_id, agent_config, azure_url, azure_ws,
                   config_message, clientOpen, c2p, nextClientId,
                   upstreamVars, taskVars, c2aReadLog, a2cReadLog,
                   readOpenLog, lateOps>>

\* variant: the acknowledgment is not sent
send_connected_skipped ==
    /\ pc = "send_connected"
    /\ pc' = "forwarding"
    /\ UNCHANGED <<serviceVars, cfg, first_message, result, agent_id, agent_config, azure_url, azure_ws,
                   config_message, clientVars, upstreamVars, taskVars,
                   historyVars>>

\* await self._send_message(client_ws, {"type": "proxy.connected", ...})
send_connected ==
    /\ pc = "send_connected"
    /\ client_send(ProxyConnected)
    /\ pc' = "forwarding"
    /\ UNCHANGED <<serviceVars, cfg, first_message, result, agent_id, agent_config, azure_url, azure_ws,
                   config_message, clientOpen, c2p, nextClientId,
                   upstreamVars, taskVars, c2aReadLog, a2cReadLog,
                   readOpenLog, lateOps>>

----------------------------------------------------------------------------
(* _handle_message_forwarding and the two forwarding tasks *)

Finished == {"done", "cancelled"}

\* tasks = [create_task(_forward_client_to_azure), create_task(_forward_azure_to_client)]
\* both tasks run up to their first await: the client read is handed to the
\* executor, the upstream iterator waits for a frame
start_forwarding ==
    /\ pc = "forwarding"
    /\ c2aPc' = "await_read"
    /\ c2aExec' = Exec("blocked", Idle.val)
    /\ a2cPc' = "await_recv"
    /\ pc' = "wait"
    /\ UNCHANGED <<serviceVars, cfg, first_message, result, agent_id, agent_config, azure_url, azure_ws,
                   config_message, clientVars, upstreamVars, a2cExec,
                   cancelled, historyVars>>

\* executor thread: client_ws.receive() returns the next frame, or fails
\* (raises, or returns None) once the client is gone and nothing is buffered
ExecClientRead ==
    /\ c2aExec.st = "blocked"
    /\ \/ /\ c2p # <<>>
          /\ c2aExec' = Exec("returned", Head(c2p))
          /\ c2p' = Tail(c2p)
          /\ c2aReadLog' = Append(c2aReadLog, Head(c2p))
          /\ readOpenLog' = IF UpstreamUsable /\ clientOpen
                            THEN Append(readOpenLog, Head(c2p))
                            ELSE readOpenLog
          /\ lateOps' = IF pc = "done" THEN Append(lateOps, "client_read")
                        ELSE lateOps
       \/ /\ c2p = <<>>
          /\ ~clientOpen
          /\ \E out \in {"raised", "none"} : c2aExec' = Exec(out, Idle.val)
          /\ UNCHANGED <<c2p, c2aReadLog, readOpenLog, lateOps>>
    /\ UNCHANGED <<serviceVars, cfg, first_message, sessionVars, clientOpen, clientRecv, nextClientId,
                   upstreamVars, c2aPc, a2cPc, a2cExec, cancelled,
                   a2cReadLog, clientSendLog>>

\* variant: every frame is re-encoded as text
forward_to_azure_as_text(message) == [message EXCEPT !.body = "text"]

\* what _forward_client_to_azure passes to azure_ws.send for a frame it read
forward_to_azure(message) == message

\* _forward_client_to_azure resumes with the result of the read:
\* None -> break; exception -> task ends; a frame -> azure_ws.send(frame),
\* then the next read is handed to the executor
forward_client_to_azure ==
    /\ c2aPc = "await_read"
    /\ c2aExec.st \in {"returned", "raised", "none"}
    /\ IF c2aExec.st = "returned" /\ UpstreamUsable
       THEN /\ upRecv' = Append(upRecv, forward_to_azure(c2aExec.val))
            /\ c2aExec' = Exec("blocked", Idle.val)
            /\ c2aPc' = "await_read"
            /\ lateOps' = IF pc = "done"
                          THEN lateOps \o <<"upstream_write", "start_client_read">>
                          ELSE lateOps
       ELSE /\ c2aExec' = Idle
            /\ c2aPc' = "done"
            /\ UNCHANGED <<upRecv, lateOps>>
    /\ UNCHANGED <<serviceVars, cfg, first_message, sessionVars, clientVars, upstream, u2p, nextUpId,
                   connectCalls, openedCount, closeCalls, a2cPc, a2cExec,
                   cancelled, c2aReadLog, a2cReadLog, readOpenLog,
                   clientSendLog>>

\* what _forward_azure_to_client passes to client_ws.send for a frame it read
forward_to_client(message) == message

\* _forward_azure_to_client: async for message in azure_ws
\* a frame -> client_ws.send(frame) is handed to the executor;
\* the upstream closed and nothing buffered -> the loop (or the task) ends
forward_azure_to_client ==
    /\ a2cPc = "await_recv"
    /\ \/ /\ u2p # <<>>
          /\ u2p' = Tail(u2p)
          /\ a2cReadLog' = Append(a2cReadLog, Head(u2p))
          /\ a2cExec' = Exec("pending", forward_to_client(Head(u2p)))
          /\ a2cPc' = "await_send"
          /\ lateOps' = IF pc = "done"
                        THEN Append(lateOps, "start_client_write")
                        ELSE lateOps
       \/ /\ u2p = <<>>
          /\ ~UpstreamUsable
          /\ a2cPc' = "done"
          /\ UNCHANGED <<u2p, a2cReadLog, a2cExec, lateOps>>
    /\ UNCHANGED <<serviceVars, cfg, first_message, sessionVars, clientVars, upstream, upRecv, nextUpId,
                   connectCalls, openedCount, closeCalls, c2aPc, c2aExec,
                   cancelled, c2aReadLog, readOpenLog, clientSendLog>>

\* executor thread: client_ws.send(frame) writes the frame, or raises when
\* the client is gone
ExecClientWrite ==
    /\ a2cExec.st = "pending"
    /\ clientSendLog' = Append(clientSendLog, a2cExec.val)
    /\ IF clientOpen
       THEN /\ clientRecv' = Append(clientRecv, a2cExec.val)
            /\ a2cExec' = Exec("sent", a2cExec.val)
            /\ lateOps' = IF pc = "done" THEN Append(lateOps, "client_write")
                          ELSE lateOps
       ELSE /\ a2cExec' = Exec("raised", a2cExec.val)
            /\ UNCHANGED <<clientRecv, lateOps>>
    /\ UNCHANGED <<serviceVars, cfg, first_message, sessionVars, clientOpen, c2p, nextClientId,
                   upstreamVars, c2aPc, c2aExec, a2cPc, cancelled,
                   c2aReadLog, a2cReadLog, readOpenLog>>

\* variant: a failed client write is swallowed inside the loop
forward_azure_to_client_sent_continue ==
    /\ a2cPc = "await_send"
    /\ a2cExec.st \in {"sent", "raised"}
    /\ a2cPc' = "await_recv"
    /\ a2cExec' = Idle
    /\ UNCHANGED <<serviceVars, cfg, first_message, sessionVars, clientVars, upstreamVars, c2aPc,
                   c2aExec, cancelled, historyVars>>

\* _forward_azure_to_client resumes after the client write:
\* written -> next iteration; exception -> the task ends
forward_azure_to_client_sent ==
    /\ a2cPc = "await_send"
    /\ a2cExec.st \in {"sent", "raised"}
    /\ a2cPc' = IF a2cExec.st = "sent" THEN "await_recv" ELSE "done"
    /\ a2cExec' = Idle
    /\ UNCHANGED <<serviceVars, cfg, first_message, sessionVars, clientVars, upstreamVars, c2aPc,
                   c2aExec, cancelled, historyVars>>

\* variant: return_when=ALL_COMPLETED
wait_returns_all_completed == c2aPc = "done" /\ a2cPc = "done"

\* asyncio.wait(tasks, return_when=FIRST_COMPLETED) is ready to return
wait_returns == c2aPc = "done" \/ a2cPc = "done"

\* variant: the pending tasks are not cancelled
pending_not_cancelled == {}

\* pending: the tasks that have not finished when the wait returns
pending == {t \in {"c2a", "a2c"} :
               (t = "c2a" /\ c2aPc # "done") \/ (t = "a2c" /\ a2cPc # "done")}

\* what cancelling the awaiting task does to its executor call: a call that a
\* worker thread has started is not interrupted, a call still queued is
\* withdrawn
after_cancel(call) ==
    IF call.st \in {"blocked", "pending"} THEN {call, Idle} ELSE {call}

\* variant: the executor calls of the cancelled tasks are awaited
cancel_awaits_executor ==
    /\ "c2a" \in pending => c2aExec.st # "blocked"
    /\ "a2c" \in pending => a2cExec.st # "pending"

\* after task.cancel() nothing is awaited: _handle_message_forwarding
\* returns whatever the cancelled tasks and their executor calls are doing
cancel_returns == TRUE

\* variant: the end of the relay is reported to the client as an error
after_forwarding_reports_error == "send_error"

\* _handle_message_forwarding returns None: handle_connection goes on to
\* its finally clause
after_forwarding == "finally"

\* done, pending = await asyncio.wait(...); for task in pending: task.cancel()
\* A cancelled task never resumes its loop.
handle_message_forwarding ==
    /\ pc = "wait"
    /\ wait_returns
    /\ cancel_returns
    /\ cancelled' = cancelled \cup pending
    /\ c2aPc' = IF "c2a" \in pending THEN "cancelled" ELSE c2aPc
    /\ a2cPc' = IF "a2c" \in pending THEN "cancelled" ELSE a2cPc
    /\ c2aExec' \in IF "c2a" \in pending THEN after_cancel(c2aExec) ELSE {c2aExec}
    /\ a2cExec' \in IF "a2c" \in pending THEN after_cancel(a2cExec) ELSE {a2cExec}
    /\ pc' = after_forwarding
    /\ UNCHANGED <<serviceVars, cfg, first_message, result, agent_id, agent_config, azure_url, azure_ws,
                   config_message, clientVars, upstreamVars, historyVars>>

\* finally: if azure_ws: await azure_ws.close()
\* an exception of close() leaves handle_connection through the finally clause
cleanup ==
    /\ pc = "finally"
    /\ IF azure_ws # None
       THEN /\ closeCalls' = closeCalls + 1
            /\ \E r \in {"returned", "raised"} : result' = r
       ELSE /\ result' = "returned"
            /\ UNCHANGED closeCalls
    /\ pc' = "done"
    /\ UNCHANGED <<serviceVars, cfg, first_message, agent_id, agent_config, azure_url, azure_ws,
                   config_message, clientVars, upstream, u2p, upRecv,
                   nextUpId, connectCalls, openedCount, taskVars,
                   historyVars>>

----------------------------------------------------------------------------

\* the other components at rest
ServiceIdle == TokenIdle /\ AnalyzerIdle /\ ManagerIdle /\ PoolIdle

Init == ProxyInit /\ ServiceIdle

Next ==
    \/ ClientSend
    \/ ClientClose
    \/ UpstreamSend
    \/ UpstreamClose
    \/ handshake
    \/ connect_to_azure
    \/ send_error
    \/ send_connected
    \/ start_forwarding
    \/ ExecClientRead
    \/ forward_client_to_azure
    \/ forward_azure_to_client
    \/ ExecClientWrite
    \/ forward_azure_to_client_sent
    \/ handle_message_forwarding
    \/ cleanup

Spec == Init /\ [][Next]_vars

\* the scheduling the event loop and the executor guarantee: a runnable task
\* is resumed, a client write handed to the executor completes or raises.
\* Nothing is assumed about the client sending or disconnecting, nor about a
\* blocked client read returning.
LiveSpec ==
    /\ Init /\ [][Next]_vars
    /\ WF_vars(forward_client_to_azure)
    /\ WF_vars(forward_azure_to_client)
    /\ WF_vars(ExecClientWrite)
    /\ WF_vars(forward_azure_to_client_sent)
    /\ WF_vars(handle_message_forwarding)
    /\ WF_vars(cleanup)

----------------------------------------------------------------------------
(* Derived values used by the properties *)

Range(q) == {q[i] : i \in 1..Len(q)}

IsPrefix(p, q) == /\ Len(p) <= Len(q)
                  /\ \A i \in 1..Len(p) : p[i] = q[i]

IsProxyFrame(f) == f.src = "proxy"
IsError(f) == f.src = "proxy" /\ f.body = "error"

\* frames written upstream after the initial configuration
relayedUp == IF upRecv = <<>> THEN <<>> ELSE Tail(upRecv)

\* frames written to the client that the proxy did not originate
relayedDown == SelectSeq(clientRecv, LAMBDA f : ~IsProxyFrame(f))

\* frames the proxy has taken from the client socket
clientReads == nextClientId - Len(c2p)

RelayStarted == c2aPc # "not_created"
ConnectorDone == pc \notin {"handshake", "connect"}
NoUpstream == ConnectorDone /\ azure_ws = None

----------------------------------------------------------------------------
(* Properties *)

\* C1: once either forwarding task has finished, the relay is able to stop
\* waiting at once, and when it has stopped waiting every task that had not
\* finished has had its cancellation requested.
C1_CancelOnFirstCompletion ==
    /\ (pc = "wait" /\ (c2aPc = "done" \/ a2cPc = "done"))
          => ENABLED handle_message_forwarding
    /\ (RelayStarted /\ pc \in {"finally", "done"})
          => /\ c2aPc = "done" \/ a2cPc = "done"
             /\ c2aPc # "done" => (c2aPc = "cancelled" /\ "c2a" \in cancelled)
             /\ a2cPc # "done" => (a2cPc = "cancelled" /\ "a2c" \in cancelled)

C1_Witness ==
    /\ pc = "finally"
    /\ a2cPc = "done"
    /\ c2aPc = "cancelled"
    /\ "c2a" \in cancelled

\* C2 as stated: after handle_connection has returned, no read from the
\* client socket and no write to the client or upstream socket happens, an
\* operation already handed to the executor included.
C2_NoOperationAfterReturn ==
    (pc = "done" /\ RelayStarted) => lateOps = <<>>

\* C2 amended: after handle_connection has returned both forwarding tasks
\* have finished or been cancelled and start no new socket operation; the
\* only operation that can still happen is the one client read or client
\* write the cancelled task had handed to the executor before it was
\* cancelled.
C2_OnlyInFlightExecutorCall ==
    /\ lateOps \in {<<>>, <<"client_read">>, <<"client_write">>}
    /\ (pc = "done" /\ RelayStarted)
          => (c2aPc \in Finished /\ a2cPc \in Finished)

C2_Witness ==
    /\ pc = "done"
    /\ c2aPc = "cancelled"
    /\ lateOps = <<"client_read">>

\* C3: when handle_connection has ended, every upstream socket that was
\* opened has been closed exactly once.
C3_OpenedUpstreamClosedOnce ==
    pc = "done" => closeCalls = openedCount

\* C4: when the Connector yields no upstream socket, a connected client
\* receives exactly one error frame, with a non-empty message.
C4_ExactlyOneErrorFrame ==
    (pc = "done" /\ NoUpstream /\ clientOpen)
        => /\ Len(SelectSeq(clientRecv, IsError)) = 1
           /\ \A f \in Range(clientRecv) : IsError(f) => f.text # ""

\* C5: when the Connector yields no upstream socket, proxy.connected is never
\* sent, neither forwarding task is created, and the proxy reads no client
\* frame after the handshake frame.
C5_NoRelayWithoutUpstream ==
    NoUpstream =>
        /\ ProxyConnected \notin Range(clientSendLog)
        /\ c2aPc = "not_created"
        /\ a2cPc = "not_created"
        /\ c2aReadLog = <<>>
        /\ clientReads <= 1

C5_Witness ==
    /\ pc = "done"
    /\ NoUpstream
    /\ clientReads = 1
    /\ c2p # <<>>

\* C6: when the upstream connection and its configuration succeeded, the
\* proxy sends proxy.connected exactly once, and before any frame relayed
\* from upstream is written to the client.
C6_ConnectedOnceBeforeRelay ==
    /\ Len(SelectSeq(clientSendLog, LAMBDA f : f = ProxyConnected)) <= 1
    /\ (azure_ws # None /\ pc \in {"forwarding", "wait", "finally", "done"})
          => /\ clientSendLog # <<>>
             /\ clientSendLog[1] = ProxyConnected
    /\ \A i \in 1..Len(clientSendLog) :
          ~IsProxyFrame(clientSendLog[i]) => (i > 1 /\ clientSendLog[1] = ProxyConnected)
    /\ relayedDown # <<>> => clientRecv[1] = ProxyConnected

C6_Witness ==
    /\ azure_ws # None
    /\ clientRecv # <<>>
    /\ clientRecv[1] = ProxyConnected
    /\ relayedDown # <<>>

\* C7: the first frame written to the upstream socket is the session.update
\* configuration built from the resolved profile; it is written once, and
\* every client frame forwarded upstream comes after it.
C7_ConfigFirstAndOnce ==
    /\ upRecv # <<>>
          => /\ upRecv[1] = SessionUpdate
             /\ \A i \in 2..Len(upRecv) : upRecv[i].src = "client"
    /\ (azure_ws # None \/ RelayStarted)
          => /\ upRecv # <<>>
             /\ config_message = build_config_message(agent_config)
             /\ agent_config = lookup_agent(agent_id)

C7_Witness ==
    /\ Len(upRecv) >= 2
    /\ upRecv[1] = SessionUpdate
    /\ upRecv[2].src = "client"

\* C8: in each direction the frames written are, at every moment, a prefix
\* of the frames read, with the same content in the same order.
C8_FifoVerbatim ==
    /\ IsPrefix(relayedUp, c2aReadLog)
    /\ IsPrefix(relayedDown, a2cReadLog)

C8_Witness ==
    /\ Len(relayedUp) >= 2
    /\ Len(relayedDown) >= 2

\* C9 as stated: a frame read from the client while both peers were open is
\* written upstream, and a frame read from the upstream is written to a
\* client that stays connected, also when the sibling task ends and the
\* task is cancelled between the read and the write.
C9_NoFrameLost ==
    /\ (pc = "done" /\ upstream = "open")
          => Range(readOpenLog) \subseteq Range(upRecv)
    /\ (pc = "done" /\ clientOpen /\ a2cExec.st # "pending")
          => Range(a2cReadLog) \subseteq Range(clientRecv)

\* C9 amended: in each direction at most the last frame read is not written
\* (the upstream or client write failed, or the client-to-upstream task was
\* cancelled between its read and its write); all frames before it are
\* written in order, and a task that waits for its next frame has written
\* every frame it read.
C9_AtMostLastFrameLost ==
    /\ IsPrefix(relayedUp, c2aReadLog)
    /\ Len(c2aReadLog) <= Len(relayedUp) + 1
    /\ IsPrefix(relayedDown, a2cReadLog)
    /\ Len(a2cReadLog) <= Len(relayedDown) + 1
    /\ (c2aPc = "await_read" /\ c2aExec.st = "blocked") => relayedUp = c2aReadLog
    /\ a2cPc = "await_recv" => relayedDown = a2cReadLog

C9_Witness ==
    /\ pc = "done"
    /\ upstream = "open"
    /\ c2aPc = "cancelled"
    /\ c2aExec.st = "returned"
    /\ readOpenLog = c2aReadLog
    /\ Len(c2aReadLog) = Len(relayedUp) + 1

----------------------------------------------------------------------------
(* Properties of the handshake, the Connector and the error handling *)

\* the routing parameters of a URL
Routing(url) == SelectSeq(url, LAMBDA q : q.param \in {"agent-id", "model"})

\* routing without a profile: the configured agent id, else the default model
DefaultRoute ==
    IF cfg.agent_id # "" THEN Param("agent-id", cfg.agent_id)
    ELSE Param("model", cfg.model_deployment_name)

HasError(log) == \E i \in 1..Len(log) : IsError(log[i])

\* C11: with an empty API credential the Connector returns no upstream
\* socket and websockets.connect is never invoked, whatever the agent id
\* and the registry lookup give.
C11_NoConnectWithoutCredential ==
    cfg.azure_openai_api_key = "" =>
        /\ connectCalls = 0
        /\ openedCount = 0
        /\ upstream = "none"
        /\ ConnectorDone => azure_ws = None

C11_Witness ==
    /\ cfg.azure_openai_api_key = ""
    /\ pc = "done"
    /\ agent_config = AzureAgent
    /\ connectCalls = 0

\* the first messages that carry no usable session.update
BadFirstMsgs == {"absent", "empty", "nonjson", "json_array", "json_other_type"}

\* C12: a first message that is absent, empty, not JSON, not a JSON object
\* or not of type session.update gives no agent id, and the session goes on
\* to the Connector with the default routing: the connection is attempted
\* whenever the credential is set.
C12_BadHandshakeIsLenient ==
    first_message \in BadFirstMsgs =>
        /\ pc # "handshake"
        /\ agent_id = None
        /\ ConnectorDone =>
              /\ agent_config = NoAgent
              /\ azure_url = base_url(cfg) \o <<DefaultRoute>>
              /\ cfg.azure_openai_api_key # "" => connectCalls = 1

C12_Witness ==
    /\ first_message = "json_array"
    /\ pc = "wait"
    /\ azure_ws # None

\* C13: an agent id that is not a key of the registry is looked up without
\* an exception and handled as if no agent id had been supplied: default
\* routing, and the connection is still attempted.
C13_UnknownIdFallsBack ==
    (ConnectorDone /\ Truthy(agent_id) /\ agent_id \notin DOMAIN agents) =>
        /\ agent_config = NoAgent
        /\ azure_url = base_url(cfg) \o <<DefaultRoute>>
        /\ cfg.azure_openai_api_key # "" => connectCalls = 1

\* C14: the URL has exactly one routing parameter, the last one, chosen by
\* priority: remote-hosted profile -> agent-id of the session; local profile
\* -> model of the profile; no profile and a configured agent id -> that
\* id; otherwise the default model.
C14_RoutingPriority ==
    azure_url # NoUrl =>
        /\ Len(Routing(azure_url)) = 1
        /\ azure_url[Len(azure_url)] =
              (IF agent_config # NoAgent /\ agent_config.is_azure_agent
                 THEN Param("agent-id", agent_id)
               ELSE IF agent_config # NoAgent
                 THEN Param("model", agent_config.model)
               ELSE IF cfg.agent_id # ""
                 THEN Param("agent-id", cfg.agent_id)
               ELSE Param("model", cfg.model_deployment_name))

C14_Witness ==
    /\ ConnectorDone
    /\ cfg.agent_id # ""
    /\ agent_config = AzureAgent
    /\ Routing(azure_url) = <<Param("agent-id", "asst_1")>>

\* C15: for a locally defined profile the session object sent upstream has
\* the profile's model, instructions, temperature and token limit, and the
\* five fixed defaults unchanged.
C15_LocalProfilePayload ==
    (azure_ws # None /\ agent_config # NoAgent /\ ~agent_config.is_azure_agent) =>
        config_message =
            [modalities |-> "text,audio",
             turn_detection |-> "azure_semantic_vad",
             input_audio_noise_reduction |-> "azure_deep_noise_suppression",
             input_audio_echo_cancellation |-> "server_echo_cancellation",
             avatar |-> "lisa/casual-sitting",
             model |-> agent_config.model,
             instructions |-> agent_config.instructions,
             temperature |-> agent_config.temperature,
             max_response_output_tokens |-> agent_config.max_tokens]

C15_Witness ==
    /\ azure_ws # None
    /\ agent_config = LocalAgent
    /\ config_message.model = "gpt-4o-mini"
    /\ config_message.max_response_output_tokens = "2000"

\* C16: for a remote-hosted profile the session object sent upstream has none
\* of model, instructions, temperature, max_response_output_tokens, and
\* the URL ends with agent-id = the agent id of the session, with no model
\* parameter.
C16_RemoteProfileNotOverridden ==
    (agent_config # NoAgent /\ agent_config.is_azure_agent) =>
        /\ azure_url[Len(azure_url)] = Param("agent-id", agent_id)
        /\ \A i \in 1..Len(azure_url) : azure_url[i].param # "model"
        /\ azure_ws # None =>
              /\ config_message.model = None
              /\ config_message.instructions = None
              /\ config_message.temperature = None
              /\ config_message.max_response_output_tokens = None
              /\ config_message.modalities = "text,audio"

C16_Witness ==
    /\ azure_ws # None
    /\ agent_config = AzureAgent
    /\ agent_id = "asst_1"
    /\ config_message = DefaultSession

\* C17: websockets.connect is invoked at most once in a session, after the
\* registry lookup of the session has completed and before either
\* forwarding task is created.
C17_OneUpstreamConnection ==
    /\ connectCalls <= 1
    /\ openedCount <= connectCalls
    /\ pc \in {"handshake", "connect"} => (connectCalls = 0 /\ ~RelayStarted)
    /\ connectCalls > 0 =>
          /\ ~lookup_raises(agent_id)
          /\ agent_config = lookup_agent(agent_id)
    /\ RelayStarted => (connectCalls = 1 /\ openedCount = 1)

C17_Witness ==
    /\ pc = "wait"
    /\ connectCalls = 1
    /\ agent_config = LocalAgent

\* C18: a failure or end of stream in the relay phase ends the task and the
\* session; no error frame is ever sent to the client of a session whose
\* relay has started.
C18_RelayFailureSendsNoError ==
    RelayStarted =>
        /\ ~HasError(clientSendLog)
        /\ \A i \in 1..Len(send_error_steps) : pc # send_error_steps[i]

C18_Witness ==
    /\ pc = "done"
    /\ c2aPc = "done"
    /\ a2cPc = "cancelled"
    /\ upstream = "peer_closed"
    /\ clientOpen
    /\ clientRecv # <<>>

\* C19: handle_connection never ends with an exception, whatever fails.
C19_NoExceptionEscapes ==
    result # "raised"

\* C20: a session in which proxy.connected was sent sends no error frame,
\* and a session in which an error frame was sent sends neither
\* proxy.connected nor a relayed upstream frame.
C20_ConnectedOrErrorNotBoth ==
    /\ ~(ProxyConnected \in Range(clientSendLog) /\ HasError(clientSendLog))
    /\ HasError(clientSendLog) =>
          \A i \in 1..Len(clientSendLog) : IsProxyFrame(clientSendLog[i])

C20_Witness ==
    /\ pc = "done"
    /\ HasError(clientRecv)
    /\ ProxyConnected \notin Range(clientSendLog)
    /\ u2p = <<>>
    /\ openedCount = 0

----------------------------------------------------------------------------
(* Properties of the relay loops *)

\* C21: a client read that returns None or an empty message ends the task
\* _forward_client_to_azure: an empty frame is the last frame the task
\* reads, and it is not forwarded to the upstream.
C21_EmptyReadEndsTask ==
    /\ \A i \in 1..Len(upRecv) : ~IsEmpty(upRecv[i])
    /\ \A i \in 1..Len(c2aReadLog) :
          IsEmpty(c2aReadLog[i]) => i = Len(c2aReadLog)

\* C23: once one forwarding task is done, _handle_message_forwarding can
\* return whatever the other task and its executor call are doing, a
\* blocked client read included, and handle_connection reaches its finally
\* clause without an exception.
C23_CancellationDoesNotBlock ==
    /\ (pc = "wait" /\ wait_returns) => ENABLED handle_message_forwarding
    /\ (RelayStarted /\ pc = "finally") => result = "running"

C23_Witness ==
    /\ pc = "finally"
    /\ result = "running"
    /\ c2aPc = "cancelled"
    /\ c2aExec.st = "blocked"
    /\ c2p = <<>>
    /\ clientOpen

----------------------------------------------------------------------------
(* Properties of TokenManager *)

\* C25: get_token returns the cached token without contacting the
\* credential provider when a token is cached and the time of the call is
\* strictly before expires_at - 5 minutes; otherwise it contacts the
\* provider, and when the provider answers it stores the new token with its
\* expiry and returns it.
C25_CachedUntilFiveMinutesBeforeExpiry ==
    tokenCall.st # "none" =>
        IF tokenCall.had # NoToken /\ tokenCall.at < tokenCall.exp - 5
        THEN /\ ~tokenCall.contacted
             /\ tokenCall.ret = tokenCall.had
             /\ token = tokenCall.had
             /\ expires_at = tokenCall.exp
        ELSE /\ tokenCall.contacted
             /\ tokenCall.st = "returned" =>
                   /\ tokenCall.ret # tokenCall.had
                   /\ token = tokenCall.ret
                   /\ expires_at = fromtimestamp(tokenCall.expires_on)

C25_Witness ==
    /\ tokenCall.st = "returned"
    /\ tokenCall.had # NoToken
    /\ tokenCall.at = tokenCall.exp - 5
    /\ tokenCall.contacted
    /\ token = 2

----------------------------------------------------------------------------
(* Properties of the analyzers *)

\* C29: _process_evaluation_result sets the total of each group to the sum
\* of the three scores of the group, whatever totals it received, and
\* returns every other field, overall_score included, as received.
C29_TotalsRecomputedOnly ==
    evaluation_result # <<>> =>
        LET r == evaluation_result[1]
            e == evaluation_json
        IN /\ r.speaking_tone_style.total =
                  e.speaking_tone_style.professional_tone
                      + e.speaking_tone_style.active_listening
                      + e.speaking_tone_style.engagement_quality
           /\ r.conversation_content.total =
                  e.conversation_content.needs_assessment
                      + e.conversation_content.value_proposition
                      + e.conversation_content.objection_handling
           /\ \A g \in {"speaking_tone_style", "conversation_content"} :
                  \A k \in DOMAIN e[g] \ {"total"} :
                      /\ DOMAIN r[g] = DOMAIN e[g]
                      /\ r[g][k] = e[g][k]
           /\ DOMAIN r = DOMAIN e
           /\ \A k \in DOMAIN e \ {"speaking_tone_style", "conversation_content"} :
                  r[k] = e[k]

C29_Witness ==
    /\ evaluation_result # <<>>
    /\ evaluation_json.speaking_tone_style.total = 0
    /\ evaluation_result[1].speaking_tone_style.total = 3
    /\ evaluation_result[1].conversation_content.total = 1
    /\ evaluation_json.overall_score = 0
    /\ evaluation_result[1].overall_score = 0

RECURSIVE Flatten(_)
Flatten(parts) == IF parts = <<>> THEN <<>>
                  ELSE Head(parts) \o Flatten(Tail(parts))

\* C30: _prepare_audio_data returns the decoded data of the chunks of type
\* user, concatenated in input order; other chunks contribute nothing, a
\* user chunk that fails to decode is skipped and the chunks after it are
\* still used, and no chunk gives no bytes.
C30_UserChunksConcatenated ==
    audio_result # <<>> =>
        LET used == SelectSeq(audio_data,
                        LAMBDA c : c.type = "user" /\ b64decode(c.data).ok)
        IN /\ audio_result[1] =
                  Flatten([i \in 1..Len(used) |-> b64decode(used[i].data).bytes])
           /\ audio_data = <<>> => audio_result[1] = <<>>

C30_Witness ==
    /\ Len(audio_data) = 2
    /\ audio_data[1] = [type |-> "user", data |-> "QUI"]
    /\ audio_data[2] = [type |-> "user", data |-> "Qw=="]
    /\ audio_result = <<(<<67>>)>>

----------------------------------------------------------------------------
(* Properties of AgentManager *)

\* the entries of reg other than id are those of before
OthersUnchanged(before, reg, id) ==
    /\ DOMAIN before \ {id} = DOMAIN reg \ {id}
    /\ \A k \in DOMAIN before \ {id} : reg[k] = before[k]

\* C26: a create_agent that returns has added exactly one entry, under the
\* returned id, and changed no other entry.  On the Azure path the entry
\* is marked is_azure_agent and has the id assigned by the remote service;
\* otherwise it is not marked and its id is local-agent-<scenario_id>-...;
\* its instructions are the scenario instructions followed by
\* BASE_INSTRUCTIONS.
C26_CreateAddsOneEntry ==
    (managerCall.op = "create_agent" /\ managerCall.st = "returned") =>
        LET id == managerCall.agent_id
            before == managerCall.before
            content == IF managerCall.scenario_data.messages = "content"
                       THEN <<"You are a buyer.">> ELSE <<>>
        IN /\ id \notin DOMAIN before
           /\ DOMAIN registry = DOMAIN before \cup {id}
           /\ OthersUnchanged(before, registry, id)
           /\ IF use_azure_ai_agents /\ project_client # None
              THEN /\ registry[id].is_azure_agent
                   /\ id.prefix = "asst"
                   /\ registry[id].azure_agent_id = id
                   /\ managerCall.remote_failed = FALSE
              ELSE /\ ~registry[id].is_azure_agent
                   /\ id.prefix = "local-agent"
                   /\ id.scenario_id = managerCall.scenario_id
           /\ Len(registry[id].instructions) = Len(content) + 1
           /\ SubSeq(registry[id].instructions, 1, Len(content)) = content
           /\ registry[id].instructions[Len(content) + 1] = BASE_INSTRUCTIONS

C26_Witness ==
    /\ managerCall.op = "create_agent"
    /\ managerCall.st = "returned"
    /\ managerCall.scenario_data.messages = "content"
    /\ managerCall.scenario_id = "scenario2"
    /\ managerCall.before # EmptyRegistry
    /\ ~use_azure_ai_agents
    /\ Cardinality(DOMAIN registry) = 2

\* C27: when delete_agent(id) has returned, get_agent(id) gives no agent;
\* delete_agent raises nothing, leaves the registry unchanged for an id
\* that is not registered, and never removes or changes another entry.
C27_DeleteRemovesOnlyId ==
    managerCall.op = "delete_agent" =>
        LET id == managerCall.agent_id
            before == managerCall.before
        IN /\ managerCall.st = "returned"
           /\ registry_get(registry, id) = NoAgent
           /\ id \notin DOMAIN registry
           /\ id \notin DOMAIN before => registry = before
           /\ OthersUnchanged(before, registry, id)

C27_Witness ==
    /\ managerCall.op = "delete_agent"
    /\ managerCall.agent_id \in DOMAIN managerCall.before
    /\ Cardinality(DOMAIN managerCall.before) = 2
    /\ Cardinality(DOMAIN registry) = 1
    /\ \A k \in DOMAIN registry :
          registry[k].scenario_id =
              managerCall.before[managerCall.agent_id].scenario_id

\* C28: delete_agent calls the remote deletion once, with the id of the
\* agent, when the registered agent is marked is_azure_agent and a project
\* client exists, and not at all for a local agent or an unregistered id;
\* when the remote deletion fails the agent is removed all the same and
\* delete_agent returns normally.
C28_RemoteDeletionOnce ==
    managerCall.op = "delete_agent" =>
        LET id == managerCall.agent_id
            before == managerCall.before
        IN /\ managerCall.remote =
                  (IF /\ id \in DOMAIN before
                      /\ before[id].is_azure_agent
                      /\ project_client # None
                   THEN <<id>> ELSE <<>>)
           /\ managerCall.remote_failed =>
                  /\ managerCall.remote = <<id>>
                  /\ id \notin DOMAIN registry
                  /\ managerCall.st = "returned"

C28_Witness ==
    /\ managerCall.op = "delete_agent"
    /\ managerCall.remote_failed
    /\ managerCall.agent_id.prefix = "asst"
    /\ managerCall.agent_id \in DOMAIN managerCall.before
    /\ managerCall.agent_id \notin DOMAIN registry

----------------------------------------------------------------------------
(* Properties of concurrent sessions *)

\* C22: sessions of one handler do not interfere.  Every frame written to
\* the upstream socket of a session is the configuration of that session
\* or a frame read from its client, every frame written to its client was
\* read from its upstream socket or made by the session itself, and no
\* session closes the socket or cancels the tasks of another: a session in
\* its relay phase has its socket open and its tasks running whatever the
\* other session did.
C22_SessionsIndependent ==
    \A s \in Sessions :
        /\ \A i \in 1..Len(upstreams[s].recv) :
              /\ upstreams[s].recv[i].owner = s
              /\ upstreams[s].recv[i].dir \in {"config", "up"}
        /\ \A i \in 1..Len(clientLog[s]) :
              /\ clientLog[s][i].owner = s
              /\ clientLog[s][i].dir \in {"proxy", "error", "down"}
        /\ upstreams[s].closed_by \subseteq {s}
        /\ relays[s].cancelled_by \subseteq {s}
        /\ sess[s].pc = "relay" =>
              (upstreams[s].st = "open" /\ relays[s].st = "running")

C22_Witness ==
    /\ sess["A"].pc = "done"
    /\ upstreams["A"].st = "closed"
    /\ relays["A"].st = "cancelled"
    /\ sess["B"].pc = "relay"
    /\ upstreams["B"].st = "open"
    /\ Len(upstreams["B"].recv) = 2
    /\ Len(clientLog["B"]) = 2

\* C24: the profile a session has looked up is frozen.  Whatever
\* create_agent and delete_agent do to the registry afterwards, the URL and
\* the configuration payload of the session are those of the entry found
\* by its lookup, and a session in its relay phase keeps its socket and
\* its tasks.
C24_ResolvedProfileFrozen ==
    \A s \in Sessions :
        /\ sess[s].pc \in {"connecting", "relay"} =>
              sess[s].azure_url =
                  build_azure_url(sess[s].agent_id, resolved[s], cfg)
        /\ sess[s].azure_ws # NoSocket =>
              /\ sess[s].config_message = build_config_message(resolved[s])
              /\ upstreams[s].recv[1].payload = sess[s].config_message
              /\ (resolved[s] # NoAgent /\ ~resolved[s].is_azure_agent) =>
                    /\ sess[s].config_message.model = resolved[s].model
                    /\ sess[s].config_message.instructions = resolved[s].instructions
                    /\ Routing(sess[s].azure_url) = <<Param("model", resolved[s].model)>>
              /\ (resolved[s] # NoAgent /\ resolved[s].is_azure_agent) =>
                    Routing(sess[s].azure_url) = <<Param("agent-id", sess[s].agent_id)>>
        /\ sess[s].pc = "relay" =>
              (upstreams[s].st = "open" /\ relays[s].st = "running")

C24_Witness ==
    /\ sess["A"].pc = "relay"
    /\ resolved["A"] # NoAgent
    /\ ~resolved["A"].is_azure_agent
    /\ sess["A"].agent_id \notin DOMAIN registry
    /\ managerCall.op = "delete_agent"
    /\ sess["A"].config_message.model = "gpt-4o-mini"
    /\ Len(upstreams["A"].recv) = 2

----------------------------------------------------------------------------
(* The first frame, and what precedes the end of the handshake *)

\* the frame a client sends first in a session
IsFirstFrame(f) == f.src = "client" /\ f.id = 0

\* C31: the first frame the client sends is taken by the handshake read and
\* is never written upstream, whatever it holds; the relay reads, and the
\* upstream receives from the client, only frames sent after it.
C31_FirstFrameNeverForwarded ==
    /\ \A i \in 1..Len(upRecv) : ~IsFirstFrame(upRecv[i])
    /\ \A i \in 1..Len(c2aReadLog) : ~IsFirstFrame(c2aReadLog[i])
    /\ \A i \in 1..Len(upRecv) :
          upRecv[i].src = "client" => upRecv[i] \in Range(c2aReadLog)
    /\ pc # "handshake" => \A i \in 1..Len(c2p) : ~IsFirstFrame(c2p[i])
    /\ (pc # "handshake" /\ first_message # "absent") =>
          first_message \in FirstMsgs

\* a first frame that is no session.update was read by the handshake, and
\* the frame after it has been relayed
C31_Witness ==
    /\ first_message \in {"nonjson", "json_other_type"}
    /\ \E i \in 1..Len(upRecv) : upRecv[i].src = "client" /\ upRecv[i].id = 1

\* the fields of a session object that _send_initial_config adds for a
\* locally defined profile, and that are present in it
Overrides(session) ==
    {k \in {"model", "instructions", "temperature", "max_response_output_tokens"} :
        session[k] # None}

RoutesByAgentId(url) == \E i \in 1..Len(url) : url[i].param = "agent-id"

\* C32: the URL and the initial payload of a session agree: when the URL
\* routes by agent-id the payload has none of model, instructions,
\* temperature and max_response_output_tokens, and when the payload has any
\* of them the URL routes by model, with the model of the payload.
C32_RoutingMatchesPayload ==
    config_message # NoSession =>
        /\ azure_url = build_azure_url(agent_id, agent_config, cfg)
        /\ config_message = build_config_message(agent_config)
        /\ RoutesByAgentId(azure_url) => Overrides(config_message) = {}
        /\ Overrides(config_message) # {} =>
              Routing(azure_url) = <<Param("model", config_message.model)>>

\* a locally defined profile in a process that has a default agent id: the
\* payload carries the overrides and the URL routes by the profile's model
C32_Witness ==
    /\ cfg.agent_id = "cfg-agent"
    /\ azure_ws # None
    /\ agent_config = LocalAgent
    /\ Overrides(config_message) =
          {"model", "instructions", "temperature", "max_response_output_tokens"}
    /\ Routing(azure_url) = <<Param("model", "gpt-4o-mini")>>

\* the steps of handle_connection and of its tasks
HandlerStep ==
    \/ handshake
    \/ connect_to_azure
    \/ send_error
    \/ send_connected
    \/ start_forwarding
    \/ ExecClientRead
    \/ forward_client_to_azure
    \/ forward_azure_to_client
    \/ ExecClientWrite
    \/ forward_azure_to_client_sent
    \/ handle_message_forwarding
    \/ cleanup

\* the client is connected and has sent nothing
ClientSilent == clientOpen /\ c2p = <<>> /\ nextClientId = 0

\* C33: until the handshake read has returned or failed, no upstream
\* connection is attempted, no upstream socket exists and nothing is written
\* to the client; and while the client stays connected without sending, the
\* session stays in the handshake: no step of the handler can be taken.
C33_NothingBeforeHandshakeRead ==
    /\ pc = "handshake" =>
          /\ first_message = None
          /\ connectCalls = 0
          /\ openedCount = 0
          /\ upstream = "none"
          /\ azure_ws = None
          /\ upRecv = <<>>
          /\ clientSendLog = <<>>
          /\ clientRecv = <<>>
          /\ c2aPc = "not_created" /\ a2cPc = "not_created"
    /\ (connectCalls > 0 \/ clientSendLog # <<>>) => first_message # None
    /\ ClientSilent => (pc = "handshake" /\ ~ENABLED HandlerStep)

\* a client that sent nothing and then disconnected: the session waited in
\* the handshake until the read failed, and connected upstream only then
C33_Witness ==
    /\ nextClientId = 0
    /\ ~clientOpen
    /\ first_message = "absent"
    /\ connectCalls = 1
    /\ upstream = "open"

----------------------------------------------------------------------------
(* The state of the TokenManager across calls *)

\* C34: after any calls of get_token on a new TokenManager, token and
\* expires_at are both unset or both set, so that the refresh test has an
\* expiry whenever it reads it; a call in which the fetch raised left token
\* and expires_at as they were; and DefaultAzureCredential() has run at most
\* once, its object being kept for every later fetch.
C34_TokenStateConsistent ==
    /\ (token = NoToken) <=> (expires_at = NoExpiry)
    /\ tokenCall.st = "returned" => (token # NoToken /\ tokenCall.ret = token)
    /\ tokenCall.st = "raised" =>
          /\ token = tokenCall.had
          /\ expires_at = tokenCall.exp
    /\ credentialsMade <= 1
    /\ credentialsMade = (IF credential = None THEN 0 ELSE 1)
    /\ credentialCalls > 0 => credential # None

\* a refresh that failed after two fetches: the token of the second fetch
\* and its expiry are still cached, and one credential object was made
C34_Witness ==
    /\ tokenCall.st = "raised"
    /\ tokenCall.had = 2
    /\ token = 2
    /\ expires_at # NoExpiry
    /\ credentialCalls = 3
    /\ credentialsMade = 1

----------------------------------------------------------------------------
(* Failure of the remote agent creation *)

\* C35: when the remote create call raises on the Azure path, create_agent
\* raises, returns no id and leaves the registry as it was before the call;
\* and a manager on the Azure path never holds a local agent.
C35_FailedCreateLeavesRegistry ==
    /\ (managerCall.op = "create_agent" /\ managerCall.remote_failed) =>
          /\ use_azure_ai_agents /\ project_client # None
          /\ managerCall.st = "raised"
          /\ managerCall.agent_id = None
          /\ registry = managerCall.before
    /\ (use_azure_ai_agents /\ project_client # None) =>
          \A id \in DOMAIN registry :
             /\ registry[id].is_azure_agent
             /\ id.prefix = "asst"

\* the remote service refused to create a second agent: the first one is
\* still the only entry
C35_Witness ==
    /\ managerCall.op = "create_agent"
    /\ managerCall.remote_failed
    /\ managerCall.st = "raised"
    /\ Cardinality(DOMAIN managerCall.before) = 1
    /\ registry = managerCall.before

----------------------------------------------------------------------------
(* The analyze route *)

\* C36: a request whose scenario_id or transcript is missing or empty is
\* answered with 400 and neither analysis is started; every other request
\* that is answered after the analyses ran is answered with 200, each of the
\* two fields being the result of its own analysis, or null when that
\* analysis failed or raised.
C36_AnalysesIndependent ==
    route_pc = "done" =>
        /\ required_missing(request_data) =>
              /\ response.status = 400
              /\ results = NotStarted
        /\ results # NotStarted =>
              /\ response.status = 200
              /\ response.ai_assessment = as_json(results.ai_assessment)
              /\ response.pronunciation_assessment = as_json(results.pronunciation)

====
